---- MODULE Spec2Model ----
(***************************************************************************)
(* Model of the jsonfmt formatter (src/jsonfmt.go, the `Format` entry      *)
(* point and the `fmter` state machine behind it).                         *)
(*                                                                         *)
(* Text is modelled as a sequence of one-character strings; every          *)
(* character of the modelled alphabet is ASCII, so one byte is one code    *)
(* point and `utf8.DecodeRuneInString` always has size 1.                  *)
(*                                                                         *)
(* The Go call stack of the recursive-descent formatter is the variable    *)
(* `stack`; the `fmter` struct is the variable `self`.  A Go panic in      *)
(* flight is the field `self.panic`; unwinding runs one frame's deferred   *)
(* calls per step (action Unwind).  The leaf scanners (string, atom, the   *)
(* two comment scanners) and the lookahead probe call no composite         *)
(* formatter, so each of them is evaluated in one piece, by a recursive    *)
(* operator over the fmter record.                                         *)
(*                                                                         *)
(* Ghost state, not in the Go code: `self.kinds` runs parallel to          *)
(* `self.buf` and remembers which writer produced each output character;   *)
(* a frame's `open` is the output length when its formatter was entered;   *)
(* `self.tries` lists the cursor of every call of snap(), in order.        *)
(*                                                                         *)
(* The variable `proc` is the process of the command (jsonfmt/cmd.go):     *)
(* its arguments, streams and exit status.  A call of the library has      *)
(* none.                                                                   *)
(***************************************************************************)
EXTENDS Integers, Sequences, FiniteSets, TLC

VARIABLES self, stack, proc

vars == <<self, stack, proc>>

-----------------------------------------------------------------------------
(* Characters *)

LF == "\n"
CR == "\r"
SP == " "
TAB == "\t"
VT == "VT"     \* '\v', written out: TLA+ strings have no escape for it
NUL == "NUL"   \* what headByte returns at end of input (byte 0)

\* const separator, newline
separator == SP
newline == LF

\* the `rollback` sentinel and the assertion failure: the values a panic carries
NoPanic == "none"
rollback == "rollback"
AssertionFailure == "assert"

\* a nil *fmter
NoSnapshot == <<>>

-----------------------------------------------------------------------------
(* Output-character provenance (ghost) *)

KSrc == "src"          \* copied from the source by string() and atom()
KBracket == "br"       \* a bracket copied by byte() in a dict or list formatter
KLineComment == "lc"   \* text of a line comment
KBlockComment == "bc"  \* text of a block comment
KCommentNl == "cnl"    \* the line break written by commentSingle
KNewline == "nl"       \* writeMaybeNewline
KIndent == "ind"       \* writeIndent
KSep == "sep"          \* writeMaybeSeparator
KPunct == "pun"        \* ':' and ',' written between elements
KTrailing == "tc"      \* writeMaybeTrailingComma

-----------------------------------------------------------------------------
(* Cursor primitives *)

Panicking(s) == s.panic # NoPanic

left(s) == Len(s.source) - s.cursor

more(s) == left(s) > 0

headByte(s) == IF s.cursor < Len(s.source) THEN s.source[s.cursor + 1] ELSE NUL

rest(s) == IF more(s) THEN SubSeq(s.source, s.cursor + 1, Len(s.source)) ELSE <<>>

HasPrefix(str, prefix) ==
  /\ Len(prefix) <= Len(str)
  /\ SubSeq(str, 1, Len(prefix)) = prefix

isNextPrefix(s, prefix) == HasPrefix(rest(s), prefix)

isNextByte(s, ch) == headByte(s) = ch

isNextSpace(s) ==
  \/ isNextByte(s, SP)
  \/ isNextByte(s, TAB)
  \/ isNextByte(s, VT)
  \/ isNextByte(s, LF)
  \/ isNextByte(s, CR)

\* isNextPunctuation that knows ',' only
isNextPunctuation_commaOnly(s) == isNextByte(s, ",")

isNextPunctuation(s) == isNextByte(s, ",") \/ isNextByte(s, ":")

nextCommentLinePrefix(s) ==
  LET prefix == s.conf.CommentLine
  IN IF prefix # <<>> /\ HasPrefix(rest(s), prefix) THEN prefix ELSE <<>>

nextCommentBlockPrefixSuffix(s) ==
  LET prefix == s.conf.CommentBlockStart
      suffix == s.conf.CommentBlockEnd
  IN IF prefix # <<>> /\ suffix # <<>> /\ HasPrefix(rest(s), prefix)
     THEN <<prefix, suffix>>
     ELSE <<<<>>, <<>>>>

isNextCommentLine(s) == nextCommentLinePrefix(s) # <<>>

isNextCommentBlock(s) ==
  LET ps == nextCommentBlockPrefixSuffix(s)
  IN ps[1] # <<>> /\ ps[2] # <<>>

isNextComment(s) == isNextCommentLine(s) \/ isNextCommentBlock(s)

isNextTerminal(s) ==
  \/ isNextByte(s, "{")
  \/ isNextByte(s, "}")
  \/ isNextByte(s, "[")
  \/ isNextByte(s, "]")
  \/ isNextByte(s, ",")
  \/ isNextByte(s, ":")
  \/ isNextByte(s, "\"")
  \/ isNextComment(s)

preferSingle(s) == s.conf.Width > 0

whitespace(s) == s.conf.Indent # <<>>

hasNewlineSuffix(s) ==
  /\ s.buf # <<>>
  /\ s.buf[Len(s.buf)] \in {LF, CR}

\* exceedsLine without `self.row > prev.row`
exceedsLine_widthOnly(s, prev) == s.conf.Width > 0 /\ s.col > s.conf.Width

\* exceedsLine with the width limit compared by >= where the code has >
exceedsLine_atLimit(s, prev) ==
  s.row > prev.row \/ (s.conf.Width > 0 /\ s.col >= s.conf.Width)

exceedsLine(s, prev) ==
  \/ s.row > prev.row
  \/ (s.conf.Width > 0 /\ s.col > s.conf.Width)

\* assert(ok): a failed assertion panics with a value that is not `rollback`
assert(s, ok) ==
  IF Panicking(s) \/ ok THEN s ELSE [s EXCEPT !.panic = AssertionFailure]

skipNBytes(s, n) == IF Panicking(s) THEN s ELSE [s EXCEPT !.cursor = @ + n]

skipByte(s) == skipNBytes(s, 1)

skipString(s, str) == skipNBytes(s, Len(str))

\* utf8.DecodeRuneInString gives size 0 on the empty string and 1 otherwise
skipChar(s) == skipNBytes(s, IF more(s) THEN 1 ELSE 0)

setDiscard(s, val) == [s EXCEPT !.discard = val]

-----------------------------------------------------------------------------
(* Emitter *)

\* writeRune with row and col counted before `if self.discard { return }`
writeRune_countsDiscarded(s, ch, kind) ==
  IF Panicking(s) THEN s
  ELSE IF s.discard
  THEN [s EXCEPT !.row = IF ch \in {LF, CR} THEN @ + 1 ELSE @,
                 !.col = IF ch \in {LF, CR} THEN 0 ELSE @ + 1]
  ELSE LET w == [s EXCEPT
                   !.row = IF ch \in {LF, CR} THEN @ + 1 ELSE @,
                   !.col = IF ch \in {LF, CR} THEN 0 ELSE @ + 1,
                   !.buf = Append(@, ch),
                   !.kinds = Append(@, kind)]
       IN IF w.snapshot # NoSnapshot /\ exceedsLine(w, w.snapshot[1])
          THEN [w EXCEPT !.panic = rollback]
          ELSE w

\* ALL writes go through writeRune.  `kind` is the ghost provenance tag.
writeRune(s, ch, kind) ==
  IF Panicking(s) \/ s.discard THEN s
  ELSE LET w == [s EXCEPT
                   !.row = IF ch \in {LF, CR} THEN @ + 1 ELSE @,
                   !.col = IF ch \in {LF, CR} THEN 0 ELSE @ + 1,
                   !.buf = Append(@, ch),
                   !.kinds = Append(@, kind)]
       IN IF w.snapshot # NoSnapshot /\ exceedsLine(w, w.snapshot[1])
          THEN [w EXCEPT !.panic = rollback]
          ELSE w

writeByte(s, ch, kind) == writeRune(s, ch, kind)

RECURSIVE writeString(_, _, _)
writeString(s, str, kind) ==
  IF str = <<>> THEN s
  ELSE writeString(writeRune(s, Head(str), kind), Tail(str), kind)

\* char(): decode one code point, write it, advance
char(s, kind) ==
  IF Panicking(s) THEN s
  ELSE LET a == assert(s, more(s))
           w == writeRune(a, headByte(a), kind)
       IN skipNBytes(w, 1)

\* byte(): write the byte under the cursor, advance
byte(s, kind) == skipNBytes(writeByte(s, headByte(s), kind), 1)

strInc(s, str, kind) == skipString(writeString(s, str, kind), str)

writeMaybeSeparator(s) ==
  IF whitespace(s) THEN writeByte(s, separator, KSep) ELSE s

writeMaybeTrailingComma(s) ==
  IF s.conf.TrailingComma THEN writeByte(s, ",", KTrailing) ELSE s

writeMaybeNewlineAs(s, kind) ==
  IF whitespace(s) /\ ~hasNewlineSuffix(s) THEN writeByte(s, newline, kind) ELSE s

writeMaybeNewline(s) == writeMaybeNewlineAs(s, KNewline)

\* wrote(fun): w is the fmter after fun ran on s; the buffer lengths are compared
wrote(w, s) == Len(w.buf) > Len(s.buf)

newlineUnlessWrote(w, s) ==
  IF Panicking(w) \/ wrote(w, s) THEN w ELSE writeByte(w, newline, KCommentNl)

writeNewline(s) == newlineUnlessWrote(writeMaybeNewlineAs(s, KCommentNl), s)

RECURSIVE writeIndentFrom(_, _)
writeIndentFrom(s, ind) ==
  IF ind < s.indent
  THEN writeIndentFrom(writeString(s, s.conf.Indent, KIndent), ind + 1)
  ELSE s

writeIndent(s) == writeIndentFrom(s, 0)

writeMaybeNewlineIndent(s) ==
  IF whitespace(s) THEN writeIndent(writeMaybeNewline(s)) ELSE s

writeMaybeCommentNewlineIndent(s) ==
  IF ~s.conf.StripComments THEN writeMaybeNewlineIndent(s) ELSE s

writeMaybeCommentNewline(s) ==
  IF ~s.conf.StripComments THEN writeMaybeNewline(s) ELSE s

\* reset(prev) without `self.buf.Truncate(prev.buf.Len())`
reset_noTruncate(s, prev) ==
  [s EXCEPT !.cursor = prev.cursor,
            !.indent = prev.indent,
            !.row = prev.row,
            !.col = prev.col]

\* reset(prev) without `self.indent = prev.indent`
reset_keepIndent(s, prev) ==
  [s EXCEPT !.cursor = prev.cursor,
            !.row = prev.row,
            !.col = prev.col,
            !.buf = SubSeq(@, 1, prev.buflen),
            !.kinds = SubSeq(@, 1, prev.buflen)]

\* reset(prev): everything but discard and snapshot; the buffer is truncated
reset(s, prev) ==
  [s EXCEPT !.cursor = prev.cursor,
            !.indent = prev.indent,
            !.row = prev.row,
            !.col = prev.col,
            !.buf = SubSeq(@, 1, prev.buflen),
            !.kinds = SubSeq(@, 1, prev.buflen)]

\* the fields of *self that reset and exceedsLine read from a copy of the struct
Copy(s) ==
  [cursor |-> s.cursor, indent |-> s.indent, row |-> s.row, col |-> s.col,
   buflen |-> Len(s.buf)]

-----------------------------------------------------------------------------
(* Leaf scanners: each runs to its return (or to the panic that ends it) *)

\* skipped(): the test; the caller applies skipByte when it holds
skipped(s) == isNextSpace(s) \/ isNextPunctuation(s)

\* string() without the `self.char()` that follows a backslash
escaped_none(b) == b

\* after the backslash: `if self.more() { self.char() }`
escaped(b) == IF more(b) THEN char(b, KSrc) ELSE b

RECURSIVE stringLoop(_)
stringLoop(s) ==
  IF Panicking(s) \/ ~more(s) THEN s
  ELSE IF isNextByte(s, "\"") THEN byte(s, KSrc)
  ELSE IF isNextByte(s, "\\") THEN stringLoop(escaped(byte(s, KSrc)))
  ELSE stringLoop(char(s, KSrc))

string(s) == stringLoop(byte(assert(s, isNextByte(s, "\"")), KSrc))

RECURSIVE commentSingleLoop(_)
commentSingleLoop(s) ==
  IF Panicking(s) \/ ~more(s) THEN s
  ELSE IF isNextPrefix(s, <<CR, LF>>) THEN writeNewline(skipString(s, <<CR, LF>>))
  ELSE IF isNextByte(s, LF) \/ isNextByte(s, CR) THEN writeNewline(skipByte(s))
  ELSE commentSingleLoop(char(s, KLineComment))

\* `if self.conf.StripComments { setDiscard(true); defer setDiscard(false) }`:
\* the deferred call runs on return and on panic alike
\* commentSingle and commentMulti without `self.setDiscard(true)`
discardIfStrip_never(s) == s

discardIfStrip(s) ==
  IF s.conf.StripComments /\ ~Panicking(s) THEN setDiscard(s, TRUE) ELSE s

\* commentSingle and commentMulti without `defer self.setDiscard(false)`
deferredSetDiscard_kept(r) == r

deferredSetDiscard(r) ==
  IF r.conf.StripComments THEN setDiscard(r, FALSE) ELSE r

commentSingle(s) ==
  deferredSetDiscard(
    commentSingleLoop(
      strInc(discardIfStrip(assert(s, nextCommentLinePrefix(s) # <<>>)),
             nextCommentLinePrefix(s), KLineComment)))

\* commentMulti that ends at the first end delimiter, counting no nesting
RECURSIVE commentMultiLoop_flat(_, _, _, _)
commentMultiLoop_flat(s, prefix, suffix, level) ==
  IF Panicking(s) \/ ~more(s) THEN s
  ELSE IF isNextPrefix(s, suffix) THEN strInc(s, suffix, KBlockComment)
  ELSE commentMultiLoop_flat(char(s, KBlockComment), prefix, suffix, level)

\* the loop of commentMulti; `level` is the nesting counter before the
\* delimiter under the cursor is counted
RECURSIVE commentMultiLoop(_, _, _, _)
commentMultiLoop(s, prefix, suffix, level) ==
  IF Panicking(s) \/ ~more(s) \/ level = 0 THEN s
  ELSE IF isNextPrefix(s, suffix)
       THEN commentMultiLoop(strInc(s, suffix, KBlockComment), prefix, suffix, level - 1)
  ELSE IF isNextPrefix(s, prefix)
       THEN commentMultiLoop(strInc(s, prefix, KBlockComment), prefix, suffix, level + 1)
  ELSE commentMultiLoop(char(s, KBlockComment), prefix, suffix, level)

commentMulti(s) ==
  deferredSetDiscard(
    commentMultiLoop(
      strInc(discardIfStrip(assert(s, isNextCommentBlock(s))),
             nextCommentBlockPrefixSuffix(s)[1], KBlockComment),
      nextCommentBlockPrefixSuffix(s)[1], nextCommentBlockPrefixSuffix(s)[2], 1))

RECURSIVE atom(_)
atom(s) ==
  IF ~Panicking(s) /\ more(s) /\ ~isNextSpace(s) /\ ~isNextTerminal(s)
  THEN atom(char(s, KSrc))
  ELSE s

\* any() for a value that is no dict and no list (those get a stack frame)
isNextComposite(s) == isNextByte(s, "{") \/ isNextByte(s, "[")

anyLeaf(s) ==
  IF Panicking(s) THEN s
  ELSE IF isNextByte(s, "\"") THEN string(s)
  ELSE IF isNextCommentLine(s) THEN commentSingle(s)
  ELSE IF isNextCommentBlock(s) THEN commentMulti(s)
  ELSE atom(s)

\* scanned(fun): r is the fmter after fun ran on s; the cursors are compared
scanned(r, s) == r.cursor > s.cursor

assertScanned(r, s) == assert(r, scanned(r, s))

\* assert(self.scannedAny()) on a leaf
assertScannedLeaf(s) == assertScanned(anyLeaf(s), s)

RECURSIVE hasNonCommentsLoop(_, _)
hasNonCommentsLoop(s, ch) ==
  IF Panicking(s) \/ ~more(s) THEN <<s, FALSE>>
  ELSE IF isNextByte(s, ch) THEN <<s, FALSE>>
  ELSE IF skipped(s) THEN hasNonCommentsLoop(skipByte(s), ch)
  ELSE IF isNextComment(s) THEN hasNonCommentsLoop(assertScannedLeaf(s), ch)
  ELSE <<s, TRUE>>

\* hasNonCommentsBefore without `defer self.reset(&prev)`
deferredReset_skipped(r, prev) == [self |-> r[1], found |-> r[2]]

\* the deferred reset(&prev) runs on return and on panic alike
deferredReset(r, prev) == [self |-> reset(r[1], Copy(prev)), found |-> r[2]]

hasNonCommentsBefore(s, ch) ==
  IF Panicking(s) THEN [self |-> s, found |-> FALSE]
  ELSE deferredReset(hasNonCommentsLoop(s, ch), s)

-----------------------------------------------------------------------------
(* Call stack *)

\* One Go stack frame of top, dict, list, dictSingle, dictMulti, listSingle or
\* listMulti.  pc "loop": at the head of the frame's for loop; pc "ret": the
\* callee that scannedAny() called has returned and scanned() is about to
\* compare the cursor with `start`.  In a dict or list frame, pc "tried": the
\* single-line attempt was called; pc "multi": the multi-line formatter was.
NewFrame(fn, pc, s) ==
  [fn |-> fn, pc |-> pc, start |-> s.cursor, key |-> TRUE,
   prev |-> s.snapshot, open |-> Len(s.buf)]

Cur(st) == st[Len(st)]

Pop(st) == SubSeq(st, 1, Len(st) - 1)

SetCur(st, fr) == [st EXCEPT ![Len(st)] = fr]

Result(s, st) == [self |-> s, stack |-> st]

indentBy(s, n) == IF Panicking(s) THEN s ELSE [s EXCEPT !.indent = @ + n]

\* snap(): the frame keeps the previous snapshot (NewFrame's prev)
snap(s) == [s EXCEPT !.snapshot = <<Copy(s)>>, !.tries = Append(@, s.cursor)]

\* maybeRollback without `self.snapshot = prev`
maybeRollback_keepSnapshot(s, prev) ==
  IF s.panic = rollback
  THEN [reset(s, s.snapshot[1]) EXCEPT !.panic = NoPanic]
  ELSE s

\* the deferred maybeRollback(prev) of dictSingle and listSingle
maybeRollback(s, prev) ==
  IF s.panic = rollback
  THEN [reset(s, s.snapshot[1]) EXCEPT !.snapshot = prev, !.panic = NoPanic]
  ELSE [s EXCEPT !.snapshot = prev]

\* the deferred calls a frame runs when it is left, by return or by panic
Deferred(fr, s) ==
  IF fr.fn \in {"dictSingle", "listSingle"} THEN maybeRollback(s, fr.prev) ELSE s

\* a return statement; a panic raised just before it is left to Unwind
Return(s, st) ==
  IF Panicking(s) THEN Result(s, st) ELSE Result(Deferred(Cur(st), s), Pop(st))

\* one frame of a panic's unwinding
unwind(s, st) == Result(Deferred(Cur(st), s), Pop(st))

-----------------------------------------------------------------------------
(* dict and list: entry *)

dictSingleEnter(s, st) ==
  Result(byte(assert(snap(s), isNextByte(s, "{")), KBracket),
         Append(st, NewFrame("dictSingle", "loop", s)))

dictMultiEnter(s, st) ==
  Result(writeMaybeNewline(byte(indentBy(assert(s, isNextByte(s, "{")), 1), KBracket)),
         Append(st, NewFrame("dictMulti", "loop", s)))

dict(s, st) ==
  IF preferSingle(s)
  THEN dictSingleEnter(s, Append(st, NewFrame("dict", "tried", s)))
  ELSE dictMultiEnter(s, Append(st, NewFrame("dict", "multi", s)))

listSingleEnter(s, st) ==
  Result(byte(assert(snap(s), isNextByte(s, "[")), KBracket),
         Append(st, NewFrame("listSingle", "loop", s)))

listMultiEnter(s, st) ==
  Result(writeMaybeNewline(byte(indentBy(assert(s, isNextByte(s, "[")), 1), KBracket)),
         Append(st, NewFrame("listMulti", "loop", s)))

list(s, st) ==
  IF preferSingle(s)
  THEN listSingleEnter(s, Append(st, NewFrame("list", "tried", s)))
  ELSE listMultiEnter(s, Append(st, NewFrame("list", "multi", s)))

\* dict() after its callee returned: scanned(dictSingle) false falls back
dictResume(s, st) ==
  LET fr == Cur(st)
  IN IF fr.pc = "tried" /\ ~(s.cursor > fr.start)
     THEN dictMultiEnter(s, SetCur(st, [fr EXCEPT !.pc = "multi"]))
     ELSE Return(s, st)

listResume(s, st) ==
  LET fr == Cur(st)
  IN IF fr.pc = "tried" /\ ~(s.cursor > fr.start)
     THEN listMultiEnter(s, SetCur(st, [fr EXCEPT !.pc = "multi"]))
     ELSE Return(s, st)

\* any(): a dict or a list is called (a frame is pushed), a leaf is run
any(s, st) ==
  IF isNextByte(s, "{") THEN dict(s, st)
  ELSE IF isNextByte(s, "[") THEN list(s, st)
  ELSE Result(anyLeaf(s), st)

\* scannedAny() in the running frame: a dict or a list is called and the
\* frame waits at pc "ret"; a string, comment or atom is scanned at once
scannedAny(s, st) ==
  IF Panicking(s) THEN Result(s, st)
  ELSE any(s, SetCur(st, [Cur(st) EXCEPT !.start = s.cursor, !.pc = "ret"]))

\* r is what scannedAny() made of st: it scanned a leaf, no frame was pushed
ScannedLeaf(r, st) == Len(r.stack) = Len(st) /\ Cur(r.stack).pc = "ret"

Loop(st) == SetCur(st, [Cur(st) EXCEPT !.pc = "loop"])

scannedSince(s, st) == s.cursor > Cur(st).start

-----------------------------------------------------------------------------
(* The formatters: one call is one iteration of the frame's loop *)

\* topAfter without `else { self.skipChar() }`
topAfter_noSkip(s, st) ==
  Result(IF scannedSince(s, st) THEN writeMaybeNewline(s) ELSE s, Loop(st))

topAfter(s, st) ==
  Result(IF scannedSince(s, st) THEN writeMaybeNewline(s) ELSE skipChar(s), Loop(st))

\* top() goes on after scannedAny() at once when it scanned a leaf
topScanned(r, st) == IF ScannedLeaf(r, st) THEN topAfter(r.self, r.stack) ELSE r

top(s, st) ==
  IF Cur(st).pc = "ret" THEN topAfter(s, st)
  ELSE IF ~more(s) THEN Return(s, st)
  ELSE IF skipped(s) THEN Result(skipByte(s), st)
  ELSE IF isNextComment(s)
       THEN Result(writeMaybeCommentNewline(assertScannedLeaf(s)), st)
  ELSE topScanned(scannedAny(s, st), st)

\* `if self.hasNonCommentsBefore(..) { writeByte(','); writeMaybeSeparator() }`
commaSingle(p) ==
  IF p.found THEN writeMaybeSeparator(writeByte(p.self, ",", KPunct)) ELSE p.self

\* commaMulti with the ',' written whatever hasNonCommentsBefore found
commaMulti_always(p) == writeByte(p.self, ",", KPunct)

\* `if self.hasNonCommentsBefore(..) { writeByte(',') } else { writeMaybeTrailingComma() }`
commaMulti(p) ==
  IF p.found THEN writeByte(p.self, ",", KPunct) ELSE writeMaybeTrailingComma(p.self)

\* `writeByte(':'); writeMaybeSeparator()`
colon(s) == writeMaybeSeparator(writeByte(s, ":", KPunct))

\* the frame back at the head of its loop, `key` flipped
Flip(st) == SetCur(st, [Cur(st) EXCEPT !.pc = "loop", !.key = ~@])

assertScannedSince(s, st) == assert(s, scannedSince(s, st))

dictSingleAfter(s, st) ==
  IF Cur(st).key
  THEN Result(colon(assertScannedSince(s, st)), Flip(st))
  ELSE Result(commaSingle(hasNonCommentsBefore(assertScannedSince(s, st), "}")), Flip(st))

\* dictSingle() goes on after scannedAny() at once when it scanned a leaf
dictSingleScanned(r, st) == IF ScannedLeaf(r, st) THEN dictSingleAfter(r.self, r.stack) ELSE r

dictSingle(s, st) ==
  IF Cur(st).pc = "ret" THEN dictSingleAfter(s, st)
  ELSE IF ~more(s) THEN Return(s, st)
  ELSE IF isNextByte(s, "}") THEN Return(byte(s, KBracket), st)
  ELSE IF skipped(s) THEN Result(skipByte(s), st)
  ELSE IF isNextComment(s) THEN Result(assertScannedLeaf(s), st)
  ELSE dictSingleScanned(scannedAny(s, st), st)

dictMultiAfter(s, st) ==
  IF Cur(st).key
  THEN Result(colon(assertScannedSince(s, st)), Flip(st))
  ELSE Result(commaMulti(hasNonCommentsBefore(assertScannedSince(s, st), "}")), Flip(st))

\* dictMulti() goes on after scannedAny() at once when it scanned a leaf
dictMultiScanned(r, st) == IF ScannedLeaf(r, st) THEN dictMultiAfter(r.self, r.stack) ELSE r

dictMulti(s, st) ==
  IF Cur(st).pc = "ret" THEN dictMultiAfter(s, st)
  ELSE IF ~more(s) THEN Return(s, st)
  ELSE IF isNextByte(s, "}")
       THEN Return(byte(writeMaybeNewlineIndent(indentBy(s, -1)), KBracket), st)
  ELSE IF skipped(s) THEN Result(skipByte(s), st)
  ELSE IF isNextComment(s)
       THEN Result(assertScannedLeaf(writeMaybeCommentNewlineIndent(s)), st)
  ELSE IF Cur(st).key THEN dictMultiScanned(scannedAny(writeMaybeNewlineIndent(s), st), st)
  ELSE dictMultiScanned(scannedAny(s, st), st)

listSingleAfter(s, st) ==
  Result(commaSingle(hasNonCommentsBefore(assertScannedSince(s, st), "]")), Loop(st))

\* listSingle() goes on after scannedAny() at once when it scanned a leaf
listSingleScanned(r, st) == IF ScannedLeaf(r, st) THEN listSingleAfter(r.self, r.stack) ELSE r

listSingle(s, st) ==
  IF Cur(st).pc = "ret" THEN listSingleAfter(s, st)
  ELSE IF ~more(s) THEN Return(s, st)
  ELSE IF isNextByte(s, "]") THEN Return(byte(s, KBracket), st)
  ELSE IF skipped(s) THEN Result(skipByte(s), st)
  ELSE IF isNextComment(s) THEN Result(assertScannedLeaf(s), st)
  ELSE listSingleScanned(scannedAny(s, st), st)

listMultiAfter(s, st) ==
  Result(commaMulti(hasNonCommentsBefore(assertScannedSince(s, st), "]")), Loop(st))

\* listMulti() goes on after scannedAny() at once when it scanned a leaf
listMultiScanned(r, st) == IF ScannedLeaf(r, st) THEN listMultiAfter(r.self, r.stack) ELSE r

listMulti(s, st) ==
  IF Cur(st).pc = "ret" THEN listMultiAfter(s, st)
  ELSE IF ~more(s) THEN Return(s, st)
  ELSE IF isNextByte(s, "]")
       THEN Return(byte(writeMaybeNewlineIndent(indentBy(s, -1)), KBracket), st)
  ELSE IF skipped(s) THEN Result(skipByte(s), st)
  ELSE IF isNextComment(s)
       THEN Result(assertScannedLeaf(writeMaybeCommentNewlineIndent(s)), st)
  ELSE listMultiScanned(scannedAny(writeMaybeNewlineIndent(s), st), st)

-----------------------------------------------------------------------------
(* Format *)

\* fmter{source: src, conf: conf}
NewFmter(conf, src) ==
  [source |-> src, cursor |-> 0, conf |-> conf, buf |-> <<>>, kinds |-> <<>>,
   indent |-> 0, row |-> 0, col |-> 0, discard |-> FALSE,
   snapshot |-> NoSnapshot, panic |-> NoPanic, tries |-> <<>>]

\* the frame of fmter.top() that Format calls
Enter(conf, src) ==
  LET s == NewFmter(conf, src) IN Result(s, <<NewFrame("top", "loop", s)>>)

\* one step of the run: a loop iteration of the current frame, or one frame
\* of unwinding
Step(s, st) ==
  IF Panicking(s) THEN unwind(s, st)
  ELSE CASE Cur(st).fn = "top" -> top(s, st)
         [] Cur(st).fn = "dict" -> dictResume(s, st)
         [] Cur(st).fn = "dictSingle" -> dictSingle(s, st)
         [] Cur(st).fn = "dictMulti" -> dictMulti(s, st)
         [] Cur(st).fn = "list" -> listResume(s, st)
         [] Cur(st).fn = "listSingle" -> listSingle(s, st)
         [] Cur(st).fn = "listMulti" -> listMulti(s, st)

RECURSIVE Run(_)
Run(m) == IF m.stack = <<>> THEN m.self ELSE Run(Step(m.self, m.stack))

\* Format(conf, src): the fmter when top() has returned or the panic has
\* left Format; the output is its buf
Format(conf, src) == Run(Enter(conf, src))

-----------------------------------------------------------------------------
(* Inputs *)

\* the longest source text over the whole alphabet
MaxLen == 3

\* all texts over alphabet A of length at most n
Texts(A, n) == UNION {[1..k -> A] : k \in 0..n}

Alphabet == {"[", "]", "{", "}", "1", "\"", "\\", SP, ",", ":", LF, "#", "(", ")"}

\* Conf: the comment syntax is fixed to "#" for line comments and "(" ")" for
\* block comments (Default has "//", "/*", "*/"; any non-empty strings that do
\* not start with a bracket or a quote behave alike)
Widths == {0, 2, 4}

Indents == {<<>>, <<SP>>}

ConfOf(indent, width, trailing, strip) ==
  [Indent |-> indent, Width |-> width,
   CommentLine |-> <<"#">>, CommentBlockStart |-> <<"(">>, CommentBlockEnd |-> <<")">>,
   TrailingComma |-> trailing, StripComments |-> strip]

Confs ==
  {ConfOf(i, w, t, c) : i \in Indents, w \in Widths, t \in BOOLEAN, c \in BOOLEAN}

\* the longest source text over the brackets and an atom
MaxCore == 5

Core == {"[", "]", "{", "}", "1"}

Sources == Texts(Alphabet, MaxLen) \cup Texts(Core, MaxCore)

-----------------------------------------------------------------------------
(* The state machine: one call of Format *)

\* a call of the library, outside the command
NoProcess == [pc |-> "library"]

Do(r) == self' = r.self /\ stack' = r.stack /\ UNCHANGED proc

Running(fn) == stack # <<>> /\ ~Panicking(self) /\ Cur(stack).fn = fn

StartOn(srcs, confs) ==
  \E src \in srcs, conf \in confs : LET m == Enter(conf, src)
                                    IN self = m.self /\ stack = m.stack /\ proc = NoProcess

Init == StartOn(Sources, Confs)

StepTop == Running("top") /\ Do(top(self, stack))

StepDict == Running("dict") /\ Do(dictResume(self, stack))

StepDictSingle == Running("dictSingle") /\ Do(dictSingle(self, stack))

StepDictMulti == Running("dictMulti") /\ Do(dictMulti(self, stack))

StepList == Running("list") /\ Do(listResume(self, stack))

StepListSingle == Running("listSingle") /\ Do(listSingle(self, stack))

StepListMulti == Running("listMulti") /\ Do(listMulti(self, stack))

Unwind == stack # <<>> /\ Panicking(self) /\ Do(unwind(self, stack))

Next ==
  \/ StepTop
  \/ StepDict
  \/ StepDictSingle
  \/ StepDictMulti
  \/ StepList
  \/ StepListSingle
  \/ StepListMulti
  \/ Unwind

Spec == Init /\ [][Next]_vars

\* Format returned / a panic left Format
Returned == stack = <<>> /\ ~Panicking(self)

Panicked == stack = <<>> /\ Panicking(self)

-----------------------------------------------------------------------------
(* Calls with other comment syntaxes *)

\* the longest source text with block comments
MaxBlockLen == 4

BlockAlphabet == {"(", ")", "|", "1", "[", "]", "{", "}"}

\* block comments "(" ... ")", and "|" ... "|" where the start and the end
\* delimiter match at the same place
BlockConfs ==
  {[ConfOf(<<SP>>, w, FALSE, c) EXCEPT !.CommentBlockStart = d[1], !.CommentBlockEnd = d[2]] :
     w \in Widths, c \in BOOLEAN, d \in {<<<<"(">>, <<")">>>>, <<<<"|">>, <<"|">>>>}}

SpecBlock == StartOn(Texts(BlockAlphabet, MaxBlockLen), BlockConfs) /\ [][Next]_vars

\* the longest source text with line comments inside objects and arrays
MaxLineLen == 5

LineAlphabet == {"[", "]", "{", "}", "1", "#", LF}

LineConfs == {ConfOf(i, w, t, c) : i \in Indents, w \in {0, 4}, t \in BOOLEAN, c \in BOOLEAN}

SpecLine == StartOn(Texts(LineAlphabet, MaxLineLen), LineConfs) /\ [][Next]_vars

\* the longest source text with strings
MaxStringLen == 5

StringAlphabet == {"\"", "\\", "[", "{", "#", "1"}

StringConfs == {ConfOf(i, w, FALSE, c) : i \in Indents, w \in {0, 2}, c \in BOOLEAN}

SpecString == StartOn(Texts(StringAlphabet, MaxStringLen), StringConfs) /\ [][Next]_vars

\* var Default
Default ==
  [Indent |-> <<SP, SP>>, Width |-> 80,
   CommentLine |-> <<"/", "/">>,
   CommentBlockStart |-> <<"/", "*">>, CommentBlockEnd |-> <<"*", "/">>,
   TrailingComma |-> FALSE, StripComments |-> FALSE]

\* Conf{}, the configuration Unmarshal passes to Format
UnmarshalConf ==
  [Indent |-> <<>>, Width |-> 0,
   CommentLine |-> <<>>, CommentBlockStart |-> <<>>, CommentBlockEnd |-> <<>>,
   TrailingComma |-> FALSE, StripComments |-> FALSE]

\* Unmarshal(src, out): the bytes it hands to json.Unmarshal
Unmarshal(src) == Format(UnmarshalConf, src).buf

\* the longest source text in the default comment syntax
MaxDefaultLen == 4

DefaultAlphabet == {"/", "*", LF, "1", "[", "]", "{", "}"}

\* calls Format(Default, src) and the call of Format that Unmarshal(src) makes
SpecUnmarshal ==
  StartOn(Texts(DefaultAlphabet, MaxDefaultLen), {Default, UnmarshalConf}) /\ [][Next]_vars

-----------------------------------------------------------------------------
(* The command: jsonfmt/cmd.go, after flag.Parse() has accepted the flags *)

\* the longest standard input
MaxStdinLen == 3

\* flag.Args(): the arguments that follow the flags
ArgLists == {<<>>, <<"help">>, <<"x">>, <<"x", "help">>, <<"help", "x">>}

\* conf := jsonfmt.Default, with the flags -w and -i applied
CmdConfs == {Default, [Default EXCEPT !.Width = 2], [Default EXCEPT !.Width = 2, !.Indent = <<>>]}

\* what the process prints to flag.CommandLine.Output()
Usage == "usage"
UnexpectedArguments == "[jsonfmt] unexpected arguments"
FailedToRead == "[jsonfmt] failed to read"
FailedToWrite == "[jsonfmt] failed to write"
GoPanic == "panic: [jsonfmt] internal error"

NotExited == -1

\* readErr, writeErr: whether io.ReadAll(os.Stdin) and os.Stdout.Write fail
NewProcess(argv, conf, stdin, readErr, writeErr) ==
  [pc |-> "args", args |-> argv, conf |-> conf, stdin |-> stdin,
   readErr |-> readErr, writeErr |-> writeErr,
   stdout |-> <<>>, stderr |-> <<>>, exit |-> NotExited]

\* os.Exit(code)
Exit(p, code) == [p EXCEPT !.pc = "exit", !.exit = code]

\* fail(err)
fail(p, err) == Exit([p EXCEPT !.stderr = Append(@, err)], 1)

\* args()
args(p) ==
  IF Len(p.args) = 0 THEN [p EXCEPT !.pc = "read"]
  ELSE IF p.args[1] = "help" THEN Exit([p EXCEPT !.stderr = Append(@, Usage)], 0)
  ELSE fail(p, UnexpectedArguments)

\* main(): flag.Parse() has returned; args()
CmdArgs == proc.pc = "args" /\ proc' = args(proc) /\ UNCHANGED <<self, stack>>

\* main(): io.ReadAll(os.Stdin), then the call of FormatBytes(conf, source)
CmdRead ==
  /\ proc.pc = "read"
  /\ IF proc.readErr
     THEN proc' = fail(proc, FailedToRead) /\ UNCHANGED <<self, stack>>
     ELSE /\ proc' = [proc EXCEPT !.pc = "format"]
          /\ self' = Enter(proc.conf, proc.stdin).self
          /\ stack' = Enter(proc.conf, proc.stdin).stack

\* main(): FormatBytes has returned and os.Stdout.Write is called, or a panic
\* has left FormatBytes and the Go runtime ends the process with status 2
CmdWrite ==
  /\ proc.pc = "format"
  /\ stack = <<>>
  /\ proc' = IF Panicking(self) THEN Exit([proc EXCEPT !.stderr = Append(@, GoPanic)], 2)
             ELSE IF proc.writeErr THEN fail(proc, FailedToWrite)
             ELSE Exit([proc EXCEPT !.stdout = self.buf], 0)
  /\ UNCHANGED <<self, stack>>

\* the process is started; no call of Format yet
InitCmd ==
  /\ \E argv \in ArgLists, conf \in CmdConfs, stdin \in Texts(DefaultAlphabet, MaxStdinLen),
        readErr \in BOOLEAN, writeErr \in BOOLEAN :
       proc = NewProcess(argv, conf, stdin, readErr, writeErr)
  /\ self = NewFmter(proc.conf, <<>>)
  /\ stack = <<>>

NextCmd ==
  \/ CmdArgs
  \/ CmdRead
  \/ CmdWrite
  \/ StepTop
  \/ StepDict
  \/ StepDictSingle
  \/ StepDictMulti
  \/ StepList
  \/ StepListSingle
  \/ StepListMulti
  \/ Unwind

SpecCmd == InitCmd /\ [][NextCmd]_vars

-----------------------------------------------------------------------------
(* Properties *)

\* C1 (idempotence): whenever Format returns, formatting its output again
\* with the same configuration returns that same output.
C1_Idempotent ==
  Returned =>
    LET again == Format(self.conf, self.buf)
    IN ~Panicking(again) /\ again.buf = self.buf

\* C2 (Format never fails): no internal assert fails and no panic leaves
\* Format, whatever the input and the configuration.
C2_NeverFails == self.panic # AssertionFailure /\ ~Panicked

\* The progress of a run, as a word with one letter per frame, bottom first.
\* A frame waiting for its callee counts the cursor it called at (`start`),
\* the running frame counts the cursor; a frame that has called counts more
\* than one that has not, a multi-line attempt more than a single-line one, a
\* panic more than both, and the running frame more than a waiting one.
Letter(s, st, i) ==
  LET fr == st[i]
      isTop == i = Len(st)
      pos == IF isTop /\ (fr.pc # "ret" \/ Panicking(s)) THEN s.cursor ELSE fr.start
      rk == IF isTop /\ Panicking(s) THEN 2
            ELSE IF fr.pc \in {"ret", "multi"} THEN 1 ELSE 0
  IN 6 * pos + 2 * rk + (IF isTop THEN 1 ELSE 0)

Progress(s, st) == [i \in 1..Len(st) |-> Letter(s, st, i)]

\* v comes strictly before w: at the first place they differ, v is smaller
\* (a word and its proper prefix are not compared: no step relates them)
Before(v, w) ==
  \E i \in 1..Len(v) :
    /\ i <= Len(w)
    /\ v[i] < w[i]
    /\ \A j \in 1..(i - 1) : v[j] = w[j]

\* C3 (termination): from no state of a call still running does a step leave
\* the state as it is, and every step either ends the call or moves the
\* progress word strictly forward; the words are bounded (at most one letter
\* per frame, each at most 6 * Len(source) + 5), so every call of Format
\* comes to its end.
C3_Terminates ==
  /\ [](stack # <<>> => Step(self, stack) # Result(self, stack))
  /\ [][stack' = <<>> \/ Before(Progress(self, stack), Progress(self', stack'))]_vars

\* a bare atom at the end of the input has been formatted and Format returned
C3_AtomAtEnd ==
  /\ Returned
  /\ self.source = <<"1">>
  /\ self.buf = <<"1", LF>>

\* the column at which the character after buf[1..n] lands
RECURSIVE ColAt(_, _)
ColAt(buf, n) == IF n = 0 \/ buf[n] \in {LF, CR} THEN 0 ELSE 1 + ColAt(buf, n - 1)

\* the running frame is one of fns, at the head of its loop, with the
\* bracket that closes it under the cursor
Closing(fns) ==
  /\ stack # <<>>
  /\ ~Panicking(self)
  /\ Cur(stack).fn \in fns
  /\ Cur(stack).pc = "loop"
  /\ isNextByte(self, IF Cur(stack).fn \in {"dictSingle", "dictMulti"} THEN "}" ELSE "]")

\* the frame of dict() or list() that called the running formatter
Owner == stack[Len(stack) - 1]

\* the source text of the object or array that is being closed
Segment == SubSeq(self.source, Owner.start + 1, self.cursor + 1)

\* no raw line break and no line comment prefix anywhere in the text
Plain(conf, seg) ==
  \A i \in 1..Len(seg) :
    /\ seg[i] \notin {LF, CR}
    /\ conf.CommentLine = <<>> \/ ~HasPrefix(SubSeq(seg, i, Len(seg)), conf.CommentLine)

\* a width no single-line rendering of the text reaches
Wide(seg) == 4 * Len(seg) + 4

\* the single-line rendering of the text: Format with the width out of the
\* way, less the line break that top() appends
SingleLine(conf, seg) ==
  LET out == Format([conf EXCEPT !.Width = Wide(seg)], seg).buf
  IN IF out # <<>> /\ out[Len(out)] = LF THEN SubSeq(out, 1, Len(out) - 1) ELSE out

\* the column the opening bracket was written at
StartCol == ColAt(self.buf, Owner.open)

ClosingPlain ==
  /\ whitespace(self)
  /\ preferSingle(self)
  /\ Closing({"dictSingle", "dictMulti", "listSingle", "listMulti"})
  /\ Plain(self.conf, Segment)

\* C4 (width threshold, amended): with Indent non-empty and Width > 0, a
\* closed object or array without line comments and raw line breaks comes out
\* on a single line exactly if the column it starts at plus the length of its
\* single-line rendering is at most Width: a multi-line formatter reaches the
\* closing bracket only if that sum exceeds Width, and a single-line attempt
\* writes the closing bracket without rolling back exactly if it does not.
C4_WidthThreshold ==
  ClosingPlain =>
    LET fits == StartCol + Len(SingleLine(self.conf, Segment)) <= self.conf.Width
    IN IF Cur(stack).fn \in {"dictMulti", "listMulti"}
       THEN ~fits
       ELSE fits <=> ~Panicking(Step(self, stack).self)

\* C4 as the specification states it: single line exactly if the length of
\* the single-line rendering alone is at most Width.
C4_WidthThresholdByLength ==
  ClosingPlain =>
    LET fits == Len(SingleLine(self.conf, Segment)) <= self.conf.Width
    IN IF Cur(stack).fn \in {"dictMulti", "listMulti"}
       THEN ~fits
       ELSE fits <=> ~Panicking(Step(self, stack).self)

\* a nested array short enough for Width is closed by the multi-line
\* formatter because it starts at a column greater than 0
C4_NestedMulti ==
  /\ ClosingPlain
  /\ Cur(stack).fn = "listMulti"
  /\ StartCol > 0
  /\ Len(SingleLine(self.conf, Segment)) <= self.conf.Width

\* the output of the object or array whose formatter is running
Rendering == SubSeq(self.buf, Owner.open + 1, Len(self.buf))

\* C5 (trailing comma): when a formatter has just written a trailing comma
\* that no rollback can take back, TrailingComma is true and the output of its
\* object or array spans more than one line.
C5_TrailingComma ==
  (/\ stack # <<>>
   /\ Cur(stack).fn \in {"dictMulti", "listMulti"}
   /\ self.snapshot = NoSnapshot
   /\ self.kinds # <<>>
   /\ self.kinds[Len(self.kinds)] = KTrailing)
  => /\ self.conf.TrailingComma
     /\ \E i \in 1..Len(Rendering) : Rendering[i] \in {LF, CR}

\* the last character of a line comment in the output
EndsLineComment(i) ==
  /\ self.kinds[i] = KLineComment
  /\ i = Len(self.kinds) \/ self.kinds[i + 1] # KLineComment

\* C6 (comment placement): when Format returns with StripComments false,
\* every line comment in the output is immediately followed by a line break.
C6_LineCommentBreak ==
  (Returned /\ ~self.conf.StripComments) =>
    \A i \in 1..Len(self.buf) :
      EndsLineComment(i) => i < Len(self.buf) /\ self.buf[i + 1] \in {LF, CR}

\* C7 (Indent empty): when Format returns with Indent empty, the output holds
\* no separator space, no indentation and no line break written by the
\* formatter other than exactly one line break after each line comment; with
\* StripComments true it holds none at all.
C7_IndentEmpty ==
  (Returned /\ ~whitespace(self)) =>
    /\ \A i \in 1..Len(self.kinds) :
         /\ self.kinds[i] \notin {KSep, KIndent, KNewline}
         /\ self.kinds[i] = KCommentNl => i > 1 /\ self.kinds[i - 1] = KLineComment
         /\ EndsLineComment(i) => i < Len(self.kinds) /\ self.kinds[i + 1] = KCommentNl
         /\ self.conf.StripComments => self.kinds[i] # KCommentNl

\* +1 for a start delimiter, -1 for an end delimiter; a character that is
\* both counts as an end
Delta(conf, ch) ==
  IF <<ch>> = conf.CommentBlockEnd THEN -1
  ELSE IF <<ch>> = conf.CommentBlockStart THEN 1 ELSE 0

\* the nesting counter after src[j], for a block comment opened by src[a]
RECURSIVE Level(_, _, _, _)
Level(conf, src, a, j) ==
  IF j <= a THEN 1 ELSE Level(conf, src, a, j - 1) + Delta(conf, src[j])

\* where the block comment under the cursor ends: after the first delimiter
\* that brings the counter to 0, at the end of the input if there is none
BlockEnd ==
  LET a == self.cursor + 1
      closes == {j \in (a + 1)..Len(self.source) : Level(self.conf, self.source, a, j) = 0}
  IN IF closes = {} THEN Len(self.source)
     ELSE CHOOSE j \in closes : \A k \in closes : j <= k

\* C8 (nested block comments): whenever the running formatter finds a block
\* comment under the cursor, its step leaves the cursor exactly where the
\* nesting counter comes to 0, or at the end of the input if it never does
\* (a step that a rollback aborts aside).
C8_NestedBlock ==
  (/\ stack # <<>>
   /\ ~Panicking(self)
   /\ Cur(stack).pc = "loop"
   /\ isNextCommentBlock(self))
  => LET r == Step(self, stack).self
     IN Panicking(r) \/ r.cursor = BlockEnd

\* a nested block comment followed by nothing was copied as one comment
C8_NestedCopied ==
  /\ Returned
  /\ self.source = <<"(", "(", ")", ")">>
  /\ self.buf = <<"(", "(", ")", ")", LF>>
  /\ self.kinds = <<KBlockComment, KBlockComment, KBlockComment, KBlockComment, KNewline>>

\* the running formatter is about to skip the character under the cursor
Skipping ==
  /\ stack # <<>>
  /\ ~Panicking(self)
  /\ Cur(stack).pc = "loop"
  /\ more(self)
  /\ ~Closing({"dictSingle", "dictMulti", "listSingle", "listMulti"})
  /\ skipped(self)

\* the source with the character under the cursor replaced by ch
Replaced(ch) == [self.source EXCEPT ![self.cursor + 1] = ch]

\* what Format hands back: the output, or the panic that left it
Outcome(conf, src) == LET f == Format(conf, src) IN <<f.panic, f.buf>>

\* C9 (punctuation repair): whenever a formatter skips a ',', a ':' or a
\* space (so it stands outside strings and comments), the source with any of
\* the three in its place formats to the same result.
C9_PunctuationRepair ==
  (Skipping /\ headByte(self) \in {",", ":", SP}) =>
    \A ch \in {",", ":", SP} :
      Outcome(self.conf, Replaced(ch)) = Outcome(self.conf, self.source)

\* a ':' between a key and a value of an object is being skipped
C9_ColonSkipped ==
  /\ Skipping
  /\ Cur(stack).fn \in {"dictSingle", "dictMulti"}
  /\ headByte(self) = ":"
  /\ self.cursor > 1

\* no text of a comment in the default syntax (of a source without strings)
NoCommentText(out) ==
  \A i \in 1..Len(out) :
    /\ ~HasPrefix(SubSeq(out, i, Len(out)), Default.CommentLine)
    /\ ~HasPrefix(SubSeq(out, i, Len(out)), Default.CommentBlockStart)

\* C10 (Unmarshal): when the call of Format that Unmarshal makes returns,
\* its configuration sets no width limit and the output it hands to the
\* decoder holds no comment text.
C10_UnmarshalStrips ==
  (Returned /\ self.conf = UnmarshalConf) =>
    /\ self.conf.Width = 0
    /\ NoCommentText(Unmarshal(self.source))

\* a text without the line breaks at its end
RECURSIVE Chomp(_)
Chomp(txt) ==
  IF txt # <<>> /\ txt[Len(txt)] \in {LF, CR} THEN Chomp(SubSeq(txt, 1, Len(txt) - 1)) ELSE txt

\* the text between the cursors of s and r
Scanned(s, r) == SubSeq(s.source, s.cursor + 1, r.cursor)

\* The tokens the scanner finds from the cursor of s on, in order: brackets
\* inside composites (a closing bracket at depth 0 is skipped by top()),
\* strings and atoms, and comments if keep; a line comment counts without its
\* terminating line break.
RECURSIVE Tokens(_, _, _)
Tokens(s, depth, keep) ==
  IF ~more(s) THEN <<>>
  ELSE IF skipped(s) THEN Tokens(skipByte(s), depth, keep)
  ELSE IF isNextComment(s)
       THEN (IF keep THEN <<Chomp(Scanned(s, anyLeaf(s)))>> ELSE <<>>)
            \o Tokens(anyLeaf(s), depth, keep)
  ELSE IF isNextComposite(s) THEN <<<<headByte(s)>>>> \o Tokens(skipByte(s), depth + 1, keep)
  ELSE IF isNextByte(s, "}") \/ isNextByte(s, "]")
       THEN IF depth > 0
            THEN <<<<headByte(s)>>>> \o Tokens(skipByte(s), depth - 1, keep)
            ELSE Tokens(skipByte(s), 0, keep)
  ELSE <<Scanned(s, anyLeaf(s))>> \o Tokens(anyLeaf(s), depth, keep)

\* a scanner at the start of a text that keeps what it scans
Scanner(conf, txt) == NewFmter([conf EXCEPT !.StripComments = FALSE], txt)

\* C11 (order and content preservation): when Format returns, scanning the
\* output yields the tokens of the input, in order and with identical text,
\* less the comments if StripComments is true.
C11_TokensPreserved ==
  Returned =>
    Tokens(Scanner(self.conf, self.buf), 0, TRUE)
      = Tokens(Scanner(self.conf, self.source), 0, ~self.conf.StripComments)

\* the brackets the dict and list formatters wrote
Openers(s) == {i \in 1..Len(s.buf) : s.kinds[i] = KBracket /\ s.buf[i] \in {"[", "{"}}

Closers(s) == {i \in 1..Len(s.buf) : s.kinds[i] = KBracket /\ s.buf[i] \in {"]", "}"}}

\* the number of objects and arrays open just before output byte i
DepthAt(s, i) ==
  Cardinality({j \in Openers(s) : j < i}) - Cardinality({j \in Closers(s) : j < i})

\* output byte i starts a line after Indent repeated d times
OwnLine(s, i, d) ==
  LET k == i - 1 - d * Len(s.conf.Indent)
  IN /\ k >= 1
     /\ s.buf[k] = LF
     /\ \A j \in k + 1 .. i - 1 : s.kinds[j] = KIndent

\* output byte i is the first byte of a string, an atom, an object or an array
StartsValue(s, i) ==
  \/ i \in Openers(s)
  \/ s.kinds[i] = KSrc /\ (i = 1 \/ s.kinds[i - 1] # KSrc)

\* output byte i directly follows the ": " of its key
AfterColon(s, i) ==
  i > 2 /\ s.kinds[i - 1] = KSep /\ s.kinds[i - 2] = KPunct /\ s.buf[i - 2] = ":"

\* the closing bracket of the object or array opened at output byte i, 0 if none
CloserOf(s, i) ==
  LET js == {j \in Closers(s) : j > i /\ DepthAt(s, j) = DepthAt(s, i) + 1}
  IN IF js = {} THEN 0 ELSE CHOOSE j \in js : \A k \in js : j <= k

NoSingleAttempt ==
  /\ self.snapshot = NoSnapshot
  /\ \A k \in 1..Len(stack) : stack[k].fn \notin {"dictSingle", "listSingle"}

MultiLineLayout ==
  \A i \in 1..Len(self.buf) :
    /\ i \in Openers(self) => i < Len(self.buf) /\ self.buf[i + 1] = LF
    /\ i \in Closers(self) => OwnLine(self, i, DepthAt(self, i) - 1)
    /\ (StartsValue(self, i) /\ DepthAt(self, i) > 0 /\ ~AfterColon(self, i))
         => OwnLine(self, i, DepthAt(self, i))

OneLineLayout ==
  \A i \in Openers(self) :
    \A j \in i .. CloserOf(self, i) : self.buf[j] # LF

\* C12 (Width 0): with Width = 0 no single-line attempt is ever running; when
\* Format has returned and Indent is non-empty, every opening bracket ends its
\* line, every closing bracket starts a line after Indent repeated depth - 1
\* times, and every string, atom, object or array inside an object or array
\* either directly follows the ": " of its key or starts a line after Indent
\* repeated depth times; when Indent is empty, no line break lies between an
\* opening bracket and its closing bracket.
C12_WidthZero ==
  self.conf.Width = 0 =>
    /\ NoSingleAttempt
    /\ (Returned /\ whitespace(self)) => MultiLineLayout
    /\ (Returned /\ ~whitespace(self)) => OneLineLayout

\* output byte i is the last byte of a top-level string, atom, object or array
EndsTopValue(s, i) ==
  \/ i \in Closers(s) /\ DepthAt(s, i) = 1
  \/ /\ s.kinds[i] = KSrc
     /\ DepthAt(s, i) = 0
     /\ i = Len(s.buf) \/ s.kinds[i + 1] # KSrc

\* C13 (top-level driver): when Format has returned and Indent is non-empty,
\* every top-level string, atom, object and array of the output is directly
\* followed by a line break, and that line break is not followed by another
\* one: top-level values never share a line and no blank line follows one.
C13_TopLevelBreak ==
  (Returned /\ whitespace(self)) =>
    \A i \in 1..Len(self.buf) :
      EndsTopValue(self, i) =>
        /\ i < Len(self.buf)
        /\ self.buf[i + 1] = LF
        /\ i + 2 <= Len(self.buf) => self.buf[i + 2] # LF

\* the source text from the cursor on, every comment the scanner recognizes
\* (a line comment with the line break that ends it) replaced by one space
RECURSIVE Blanked(_)
Blanked(s) ==
  IF ~more(s) THEN <<>>
  ELSE IF isNextComment(s) THEN <<SP>> \o Blanked(anyLeaf(s))
  ELSE IF scanned(anyLeaf(s), s) THEN Scanned(s, anyLeaf(s)) \o Blanked(anyLeaf(s))
  ELSE <<headByte(s)>> \o Blanked(skipByte(s))

\* the output of Format(conf, src) when Format returns
SameOutput(f, buf) == ~Panicking(f) /\ f.buf = buf

\* C14 (StripComments equivalence): when Format has returned with
\* StripComments true, no byte of the output was written by a comment
\* formatter, and the output is the output of Format, under the same Conf, of
\* the source with every recognized comment replaced by one space.
C14_StripEquivalence ==
  (Returned /\ self.conf.StripComments) =>
    /\ \A i \in 1..Len(self.kinds) :
         self.kinds[i] \notin {KLineComment, KBlockComment, KCommentNl}
    /\ SameOutput(Format(self.conf, Blanked(Scanner(self.conf, self.source))), self.buf)

\* a comment inside an array or object was stripped
C14_CommentStripped ==
  /\ Returned
  /\ self.conf.StripComments
  /\ Blanked(Scanner(self.conf, self.source)) # self.source
  /\ Openers(self) # {}
  /\ \E i \in 1..Len(self.kinds) : self.kinds[i] = KSrc

Singles == {"dictSingle", "listSingle"}

Multis == {"dictMulti", "listMulti"}

\* the number of line breaks in the output
Rows(buf) == Cardinality({i \in 1..Len(buf) : buf[i] \in {LF, CR}})

\* the abort of a single-line attempt has reached the frame of the attempt:
\* the next step runs its deferred maybeRollback
Aborting == stack # <<>> /\ self.panic = rollback /\ Cur(stack).fn \in Singles

\* the output that was there when the frame fr was entered
Below(fr, buf) == SubSeq(buf, 1, fr.open)

\* the state is the one in which the frame fr was entered by the dict() or
\* list() on top of `below`: the cursor and the output are those of the entry,
\* row and column are those of that output, the indent depth is the number of
\* multi-line formatters running below fr
AsEntered(s, fr, below, buf) ==
  /\ s.cursor = Cur(below).start
  /\ s.buf = Below(fr, buf)
  /\ s.row = Rows(s.buf)
  /\ s.col = ColAt(s.buf, Len(s.buf))
  /\ s.indent = Cardinality({k \in 1..Len(below) : below[k].fn \in Multis})

\* the fields reset() restores are those of the snapshot
AsSnapshot(s, snapshot) ==
  /\ s.cursor = snapshot.cursor
  /\ Len(s.buf) = snapshot.buflen
  /\ s.row = snapshot.row
  /\ s.col = snapshot.col
  /\ s.indent = snapshot.indent

\* C16 (transactional rollback): the step that ends an aborted single-line
\* attempt leaves the cursor, the output (length and content), row, column and
\* indent depth as they were when the attempt was entered and as the snapshot
\* recorded them, with the discard flag false and the abort cleared; and no
\* step changes the output that was there when a running attempt was entered.
C16_Rollback ==
  [][/\ Aborting =>
          /\ stack' = Pop(stack)
          /\ self'.panic = NoPanic
          /\ self'.discard = FALSE
          /\ AsEntered(self', Cur(stack), stack', self.buf)
          /\ AsSnapshot(self', self.snapshot[1])
     /\ \A k \in 1..Len(stack) :
          stack[k].fn \in Singles => Below(stack[k], self'.buf) = Below(stack[k], self.buf)]_vars

\* an abort raised by a multi-line formatter nested in a single-line attempt
\* is on its way to the frame of the attempt, with output and source of the
\* attempt to take back
C16_NestedAbort ==
  /\ stack # <<>>
  /\ self.panic = rollback
  /\ Cur(stack).fn \in Multis
  /\ \E k \in 1..Len(stack) :
       /\ stack[k].fn \in Singles
       /\ Len(self.buf) > stack[k].open + 1
       /\ self.cursor > stack[k - 1].start + 1

\* the output has left the row of the current snapshot, or the column has
\* passed Width
Exceeded(s) ==
  \/ Rows(s.buf) # s.snapshot[1].row
  \/ ColAt(s.buf, Len(s.buf)) > s.conf.Width

\* the output before its last write
Unwritten(s) == [s EXCEPT !.buf = SubSeq(@, 1, Len(@) - 1)]

\* the fmter at the write that raised the abort.  An abort raised by a comment
\* that hasNonCommentsBefore wrote leaves the probe through its deferred reset,
\* which takes the comment back: there the write is the one the probe made.
Raised(s, fr) ==
  IF Exceeded(s) THEN s
  ELSE hasNonCommentsLoop([s EXCEPT !.panic = NoPanic],
                          IF fr.fn = "dictSingle" THEN "}" ELSE "]")[1]

\* the write that raised the abort is the first write since the snapshot
\* after which the line is exceeded
FirstExceeding(s) ==
  /\ Len(s.buf) > s.snapshot[1].buflen
  /\ Exceeded(s)
  /\ Len(s.buf) - 1 > s.snapshot[1].buflen => ~Exceeded(Unwritten(s))

\* C17 (abort condition): while a snapshot is current and no abort is under
\* way, the output is on the row of the snapshot and the column is at most
\* Width (row and column being those of the output text); and an abort is
\* raised only while a snapshot is current, by the first write after which
\* the row differs from the snapshot's or the column is greater than Width.
C17_AbortCondition ==
  /\ [](stack # <<>> /\ ~Panicking(self) /\ self.snapshot # NoSnapshot =>
          /\ self.row = Rows(self.buf)
          /\ self.col = ColAt(self.buf, Len(self.buf))
          /\ self.row = self.snapshot[1].row
          /\ self.col <= self.conf.Width)
  /\ [][self.panic = NoPanic /\ self'.panic = rollback =>
          /\ self'.snapshot # NoSnapshot
          /\ FirstExceeding(Raised(self', Cur(stack')))]_vars

\* a single-line attempt has committed with its last character at column Width
C17_CommitsAtWidth ==
  /\ stack # <<>>
  /\ ~Panicking(self)
  /\ Cur(stack).fn \in {"dict", "list"}
  /\ Cur(stack).pc = "tried"
  /\ self.cursor > Cur(stack).start
  /\ self.col = self.conf.Width

\* the innermost running single-line attempt, 0 if there is none
Innermost(st) ==
  LET ks == {k \in 1..Len(st) : st[k].fn \in Singles}
  IN IF ks = {} THEN 0 ELSE CHOOSE k \in ks : \A j \in ks : j <= k

\* the current snapshot is the one the innermost running attempt took when it
\* was entered; there is none when no attempt is running
OwnSnapshot ==
  IF Innermost(stack) = 0 THEN self.snapshot = NoSnapshot
  ELSE /\ self.snapshot # NoSnapshot
       /\ self.snapshot[1].cursor = stack[Innermost(stack) - 1].start
       /\ self.snapshot[1].buflen = stack[Innermost(stack)].open

\* a multi-line formatter is running inside a single-line attempt
MultiInSingle ==
  \E j, k \in 1..Len(stack) : j < k /\ stack[j].fn \in Singles /\ stack[k].fn \in Multis

\* output byte i opens an object or array that a single-line attempt committed
SingleAt(s, i) == i \in Openers(s) /\ (i = Len(s.buf) \/ s.kinds[i + 1] # KNewline)

\* C18 (snapshot nesting): in every state the current snapshot is the one of
\* the innermost running single-line attempt, and the step that leaves an
\* attempt (commit or rollback) makes current the snapshot that was current
\* when it was entered; an abort never leaves Format; with Indent non-empty a
\* multi-line formatter running inside a single-line attempt has raised the
\* abort, and in the output no closed object or array that a single-line
\* attempt committed holds a line break.
C18_SnapshotNesting ==
  /\ [](OwnSnapshot)
  /\ [](stack = <<>> => self.panic # rollback)
  /\ []((whitespace(self) /\ MultiInSingle) => self.panic = rollback)
  /\ []((Returned /\ whitespace(self)) =>
          \A i \in 1..Len(self.buf) :
            (SingleAt(self, i) /\ CloserOf(self, i) # 0) =>
              \A j \in i..CloserOf(self, i) : self.buf[j] # LF)
  /\ [][(stack # <<>> /\ Cur(stack).fn \in Singles /\ stack' = Pop(stack)) =>
          self'.snapshot = Cur(stack).prev]_vars

\* with Indent non-empty, an object or array inside a single-line attempt
\* fell back to the multi-line formatter, whose line break raised the abort
C18_InnerFallback ==
  /\ whitespace(self)
  /\ MultiInSingle
  /\ Cur(stack).fn \in Multis
  /\ self.panic = rollback
  /\ self.buf[Len(self.buf)] = LF

\* the running dict or list formatter calls hasNonCommentsBefore in its next
\* step: an object or array it called has returned, or a string or an atom is
\* under the cursor (in a dict: as a value)
ProbesNext ==
  /\ stack # <<>>
  /\ ~Panicking(self)
  /\ Cur(stack).fn \in Singles \cup Multis
  /\ Cur(stack).fn \in {"dictSingle", "dictMulti"} => ~Cur(stack).key
  /\ \/ Cur(stack).pc = "ret"
     \/ /\ Cur(stack).pc = "loop"
        /\ more(self)
        /\ ~isNextByte(self, "}")
        /\ ~isNextByte(self, "]")
        /\ ~skipped(self)
        /\ ~isNextComment(self)
        /\ ~isNextComposite(self)

\* the fmter at that call
AtProbe ==
  IF Cur(stack).pc = "ret" THEN self
  ELSE IF Cur(stack).fn = "listMulti" THEN anyLeaf(writeMaybeNewlineIndent(self))
  ELSE anyLeaf(self)

\* the closing bracket the running formatter passes to hasNonCommentsBefore
ProbeChar == IF Cur(stack).fn \in {"dictSingle", "dictMulti"} THEN "}" ELSE "]"

\* r is s with nothing scanned and nothing written
Untouched(r, s) ==
  /\ r.cursor = s.cursor
  /\ r.buf = s.buf
  /\ r.row = s.row
  /\ r.col = s.col
  /\ r.indent = s.indent

\* C19 (the probe does not mutate): whenever a dict or list formatter calls
\* hasNonCommentsBefore, the fmter it returns with (with true, with false, or
\* unwinding with the abort a comment it wrote has raised) has the cursor, the
\* output, row, column and indent depth of the call.
C19_ProbeRestores ==
  (ProbesNext /\ ~Panicking(AtProbe)) =>
    Untouched(hasNonCommentsBefore(AtProbe, ProbeChar).self, AtProbe)

\* a comment that the probe writes raises the abort of the single-line attempt
C19_ProbeAborts ==
  /\ ProbesNext
  /\ ~Panicking(AtProbe)
  /\ hasNonCommentsBefore(AtProbe, ProbeChar).self.panic = rollback
  /\ Len(hasNonCommentsLoop(AtProbe, ProbeChar)[1].buf) > Len(AtProbe.buf)
  /\ hasNonCommentsLoop(AtProbe, ProbeChar)[1].cursor > AtProbe.cursor

\* the number of single-line attempts started on the object or array whose
\* opening bracket is at source offset o
Tries(s, o) == Cardinality({i \in 1..Len(s.tries) : s.tries[i] = o})

\* C20 (bounded retry): in every state of a call of Format, for every source
\* offset, at most one single-line attempt has been started on the object or
\* array that opens there.
C20_BoundedRetry ==
  \A o \in 0..Len(self.source) : Tries(self, o) <= 1

Exited == proc.pc = "exit"

\* C15 (CLI outcomes): with no argument after the flags and no read or write
\* failure, the process exits 0 with the formatted standard input on standard
\* output; with any argument after the flags it prints the usage text and
\* never calls Format; it exits 1 when the first argument is not `help`, when
\* reading fails and when writing fails.
C15_CliOutcomes ==
  /\ Exited /\ proc.args = <<>> /\ ~proc.readErr /\ ~proc.writeErr =>
       /\ proc.exit = 0
       /\ proc.stdout = Format(proc.conf, proc.stdin).buf
  /\ Exited /\ proc.args # <<>> => Usage \in {proc.stderr[i] : i \in 1..Len(proc.stderr)}
  /\ Exited /\ proc.args # <<>> /\ proc.args[1] # "help" => proc.exit = 1
  /\ Exited /\ proc.args = <<>> /\ proc.readErr => proc.exit = 1
  /\ Exited /\ proc.args = <<>> /\ ~proc.readErr /\ proc.writeErr /\ ~Panicking(self) => proc.exit = 1
  /\ proc.args # <<>> => stack = <<>> /\ proc.pc \in {"args", "exit"} /\ proc.stdout = <<>>

\* the running formatter is at the head of its loop with a line comment
\* under the cursor: its next step consumes the comment
AtLineComment ==
  /\ stack # <<>>
  /\ ~Panicking(self)
  /\ Cur(stack).fn \in {"top"} \cup Singles \cup Multis
  /\ Cur(stack).pc = "loop"
  /\ isNextCommentLine(self)

\* the source offset after the line that starts at offset i: after the first
\* "\r\n", "\n" or "\r", or the end of the source
RECURSIVE LineEnd(_, _)
LineEnd(src, i) ==
  IF i >= Len(src) THEN Len(src)
  ELSE IF src[i + 1] = CR /\ i + 1 < Len(src) /\ src[i + 2] = LF THEN i + 2
  ELSE IF src[i + 1] \in {LF, CR} THEN i + 1
  ELSE LineEnd(src, i + 1)

Committed ==
  /\ stack # <<>>
  /\ ~Panicking(self)
  /\ Cur(stack).fn \in {"dict", "list"}
  /\ Cur(stack).pc = "tried"
  /\ self.cursor > Cur(stack).start

\* C22 (line comments force multi-line): when a single-line attempt commits,
\* the output it wrote holds no text of a line comment.
C22_NoCommentCommitted ==
  Committed =>
    \A i \in Cur(stack).open + 1 .. Len(self.buf) : self.kinds[i] # KLineComment

\* the running formatter is at the head of its loop with a double quote
\* under the cursor: its next step calls string()
AtString ==
  /\ stack # <<>>
  /\ ~Panicking(self)
  /\ Cur(stack).fn \in {"top"} \cup Singles \cup Multis
  /\ Cur(stack).pc = "loop"
  /\ isNextByte(self, "\"")

\* the source offset after the string body that goes on at offset i: after
\* the first double quote that no backslash protects, or the end of the source
RECURSIVE BodyEnd(_, _)
BodyEnd(src, i) ==
  IF i >= Len(src) THEN Len(src)
  ELSE IF src[i + 1] = "\"" THEN i + 1
  ELSE IF src[i + 1] = "\\" THEN (IF i + 1 >= Len(src) THEN Len(src) ELSE BodyEnd(src, i + 2))
  ELSE BodyEnd(src, i + 1)

\* the source offset after the string whose opening quote is at offset i
StringEnd(src, i) == BodyEnd(src, i + 1)

\* s.buf holds txt, written by string() or atom(), somewhere after its first
\* n characters
CopiedAfter(s, n, txt) ==
  \E a \in n .. Len(s.buf) - Len(txt) :
    /\ SubSeq(s.buf, a + 1, a + Len(txt)) = txt
    /\ \A j \in a + 1 .. a + Len(txt) : s.kinds[j] = KSrc

\* C23 (string scanning): the step of a formatter that finds a double quote
\* under the cursor either ends in the abort of a single-line attempt, or
\* moves the cursor to just after the first following double quote that no
\* backslash protects (to the end of the source if there is none) and has
\* copied exactly that source text to the output, whatever brackets,
\* punctuation, whitespace and comment delimiters it holds.
C23_StringCopied ==
  [][AtString =>
       \/ self'.panic = rollback
       \/ /\ self'.panic = NoPanic
          /\ self'.cursor = StringEnd(self.source, self.cursor)
          /\ CopiedAfter(self', Len(self.buf),
                         SubSeq(self.source, self.cursor + 1, StringEnd(self.source, self.cursor)))]_vars

\* a string that holds a protected double quote, a bracket or a comment
\* delimiter and its closing quote has been copied
C23_EscapedQuote ==
  /\ stack # <<>>
  /\ ~Panicking(self)
  /\ \E i \in 0..Len(self.source) :
       /\ i < self.cursor
       /\ self.source[i + 1] = "\""
       /\ (i = 0 \/ self.source[i] \notin {"\"", "\\"})
       /\ StringEnd(self.source, i) = self.cursor
       /\ self.source[self.cursor] = "\""
       /\ self.cursor - i >= 5
       /\ self.source[i + 2] = "\\"
       /\ self.source[i + 3] = "\""
       /\ self.source[i + 4] \in {"[", "{", "#"}
       /\ CopiedAfter(self, 0, SubSeq(self.source, i + 1, self.cursor))

\* C24 (multi-line mode needs Indent): with Indent empty, no frame of
\* dictMulti or listMulti is ever on the call stack.
C24_MultiNeedsIndent ==
  ~whitespace(self) => \A k \in 1..Len(stack) : stack[k].fn \notin Multis

\* the running dict or list formatter has an element to finish in its next
\* step: an object or array it called has returned, or a string or an atom is
\* under the cursor
AtElement ==
  /\ stack # <<>>
  /\ ~Panicking(self)
  /\ Cur(stack).fn \in Singles \cup Multis
  /\ \/ Cur(stack).pc = "ret"
     \/ /\ Cur(stack).pc = "loop"
        /\ more(self)
        /\ ~isNextByte(self, "}")
        /\ ~isNextByte(self, "]")
        /\ ~skipped(self)
        /\ ~isNextComment(self)
        /\ ~isNextComposite(self)

\* the running dict or list formatter has a comment under the cursor
AtComment ==
  /\ stack # <<>>
  /\ ~Panicking(self)
  /\ Cur(stack).fn \in Singles \cup Multis
  /\ Cur(stack).pc = "loop"
  /\ more(self)
  /\ ~isNextByte(self, "}")
  /\ ~isNextByte(self, "]")
  /\ ~skipped(self)
  /\ isNextComment(self)

\* where the block comment that starts after the first i code points of src
\* ends
BlockEndAt(conf, src, i) ==
  LET closes == {j \in (i + 2)..Len(src) : Level(conf, src, i + 1, j) = 0}
  IN IF closes = {} THEN Len(src)
     ELSE CHOOSE j \in closes : \A k \in closes : j <= k

\* read from the source alone: after its first i code points, something other
\* than white space, ',' and ':' and comments comes before the closing
\* bracket ch and before the end of the input
RECURSIVE Remains(_, _, _)
Remains(s, i, ch) ==
  LET at == [s EXCEPT !.cursor = i]
  IN IF ~more(at) \/ isNextByte(at, ch) THEN FALSE
     ELSE IF skipped(at) THEN Remains(s, i + 1, ch)
     ELSE IF isNextCommentLine(at) THEN Remains(s, LineEnd(s.source, i), ch)
     ELSE IF isNextCommentBlock(at) THEN Remains(s, BlockEndAt(s.conf, s.source, i), ch)
     ELSE TRUE

\* what a step has appended to the output: the positions written as kind k
\* with the code point ch
Appended(k, ch) ==
  {i \in (Len(self.buf) + 1)..Len(self'.buf) : self'.kinds[i] = k /\ self'.buf[i] = ch}

Extends == Len(self'.buf) >= Len(self.buf) /\ SubSeq(self'.buf, 1, Len(self.buf)) = self.buf

InDict == Cur(stack).fn \in {"dictSingle", "dictMulti"}

\* C25 (separator rule): a step of a dict or list formatter, in single-line
\* or multi-line mode and not aborted, that finishes a dict key appends that
\* key, exactly one ':' and no ','; one that finishes a list element or a
\* dict value appends it and exactly one plain ',' if the source has
\* non-comment content left before the closing bracket or the end of the
\* input, and no ',' otherwise, and never a ':'; key and value alternate with
\* each of these steps; a step that scans a comment appends no ',', no ':'
\* and no separator space and leaves the alternation as it is.
C25_SeparatorRule ==
  [][/\ (AtElement /\ ~Panicking(self')) =>
          /\ Extends
          /\ Len(stack') = Len(stack)
          /\ IF InDict /\ Cur(stack).key
             THEN /\ Cardinality(Appended(KPunct, ":")) = 1
                  /\ Appended(KPunct, ",") = {}
                  /\ ~Cur(stack').key
             ELSE /\ Appended(KPunct, ":") = {}
                  /\ Cardinality(Appended(KPunct, ",")) =
                       (IF Remains(self', self'.cursor, ProbeChar) THEN 1 ELSE 0)
                  /\ InDict => Cur(stack').key
     /\ (AtComment /\ ~Panicking(self')) =>
          /\ Extends
          /\ stack' = stack
          /\ \A i \in (Len(self.buf) + 1)..Len(self'.buf) :
               self'.kinds[i] \notin {KPunct, KSep, KTrailing}]_vars

\* two list elements with a comment between them were written in multi-line
\* mode: the ',' follows the first element, the comment has none
C25_CommentBetween ==
  /\ Returned
  /\ \E i, j, k \in 1..Len(self.buf) :
       /\ i < j /\ j < k
       /\ self.kinds[i] = KSrc
       /\ self.kinds[i + 1] = KPunct /\ self.buf[i + 1] = ","
       /\ self.kinds[j] = KLineComment
       /\ self.kinds[k] = KSrc

\* row and col of a fmter are those of its first n code points of output
RowColOf(s, n) ==
  /\ s.row = Rows(SubSeq(self.buf, 1, n))
  /\ s.col = ColAt(self.buf, n)

\* C26 (row/column consistency): in every state of a Format call, unwinding
\* and after every rollback included, row is the number of '\n' and '\r' in
\* the output and col the number of code points after the last of them; the
\* same holds of the active snapshot for the output it would restore, of the
\* fmter a probe returns after its reset, and of a write made in discard mode.
C26_RowCol ==
  /\ RowColOf(self, Len(self.buf))
  /\ self.snapshot # NoSnapshot =>
       /\ self.snapshot[1].buflen <= Len(self.buf)
       /\ RowColOf(self.snapshot[1], self.snapshot[1].buflen)
  /\ ProbesNext =>
       LET r == hasNonCommentsBefore(AtProbe, ProbeChar).self
       IN r.row = Rows(r.buf) /\ r.col = ColAt(r.buf, Len(r.buf))
  /\ \A ch \in {LF, "1"} :
       LET r == writeRune(setDiscard(self, TRUE), ch, KSrc)
       IN r.row = Rows(r.buf) /\ r.col = ColAt(r.buf, Len(r.buf))

\* a multi-line formatter runs after the rollback of its single-line attempt,
\* past the first line of the output and past a comment it scanned in discard
\* mode
C26_SecondLine ==
  /\ stack # <<>>
  /\ Cur(stack).fn \in Multis
  /\ self.tries # <<>>
  /\ self.row > 0
  /\ self.col > 0
  /\ self.conf.StripComments
  /\ \E i \in 1..self.cursor : self.source[i] = "#"
  /\ \A i \in 1..Len(self.source) : self.source[i] # "\""

\* the multi-line object and array bodies open on the call stack
OpenBodies(st) == {k \in 1..Len(st) : st[k].fn \in Multis}

\* top() is about to dispatch a value
TopDispatches ==
  /\ Running("top")
  /\ Cur(stack).pc = "loop"
  /\ more(self)
  /\ ~skipped(self)
  /\ ~isNextComment(self)

\* C27 (indent depth): the indent counter is never negative, equals the
\* number of multi-line object and array bodies open on the call stack in
\* every state of a run that is not unwinding, and is 0 whenever top()
\* dispatches a value.
C27_IndentDepth ==
  /\ self.indent >= 0
  /\ (stack # <<>> /\ ~Panicking(self)) =>
       self.indent = Cardinality(OpenBodies(stack))
  /\ TopDispatches => self.indent = 0

\* C27 as the code has it: the counter is never negative and never less than
\* the number of multi-line bodies open on the call stack; it equals that
\* number as long as input remains (a body that the end of the input ends,
\* without its closing bracket, returns with the counter still incremented);
\* it is 0 whenever top() dispatches a value; no step of a single-line
\* formatter changes it, and the step that rolls an attempt back leaves it
\* as it was when the attempt was entered.
C27_IndentWhileInput ==
  /\ [](/\ self.indent >= 0
        /\ (stack # <<>> /\ ~Panicking(self)) =>
             /\ self.indent >= Cardinality(OpenBodies(stack))
             /\ more(self) => self.indent = Cardinality(OpenBodies(stack))
        /\ TopDispatches => self.indent = 0)
  /\ [][/\ (stack # <<>> /\ Cur(stack).fn \in Singles /\ ~Panicking(self)
              /\ ~Panicking(self'))
             => self'.indent = self.indent
        /\ (stack # <<>> /\ Cur(stack).fn \in Singles /\ self.panic = rollback
              /\ ~Panicking(self'))
             => self'.indent = Cardinality(OpenBodies(stack'))]_vars

\* a single-line attempt made inside an open multi-line body has been rolled
\* back, after two attempts before it: the counter is at the number of bodies
\* open
C27_RolledBack ==
  /\ stack # <<>>
  /\ ~Panicking(self)
  /\ Cur(stack).fn \in {"dict", "list"}
  /\ Cur(stack).pc = "tried"
  /\ self.cursor = Cur(stack).start
  /\ Len(self.tries) >= 3
  /\ OpenBodies(stack) # {}
  /\ self.indent = Cardinality(OpenBodies(stack))
====
